---- MODULE Spec2Model ----
(***************************************************************************)
(* Model of server.js: the EDCC sync pipeline of the EHV tracker backend.  *)
(*                                                                         *)
(* JavaScript runs each callback to completion, so a sync pass            *)
(* (syncFromEDCC) gives up control only at its awaits: the fetch of the    *)
(* listing page and the fetch of each alert page.  Everything between two  *)
(* awaits, the synchronous better-sqlite3 statements included, is one      *)
(* step.  Passes started by the three triggers interleave at the awaits.   *)
(***************************************************************************)
EXTENDS Integers, Sequences, FiniteSets, TLC

VARIABLES
  store,     \* the rows of table outbreaks
  passes,    \* the calls of syncFromEDCC so far, one record per call
  ver,       \* the remote site: current version of each alert page
  latest,    \* history: per alert id, the candidate of the newest response
  calls,     \* history: the candidates handed to upsertOutbreak (store API)
  doc,       \* listing page under getLatestAlertUrls: its anchors' hrefs
  found,     \* the sequence getLatestAlertUrls returned for doc
  input,     \* argument of the extraction function under study
  output     \* what that function returned for input

vars == <<store, passes, ver, latest, calls, doc, found, input, output>>

----------------------------------------------------------------------------
(* Bounds of the model *)

MaxPasses == 2      \* sync passes started in one behaviour
MaxAnchors == 12    \* anchors of a listing page given to getLatestAlertUrls
MaxCalls == 3       \* direct upsert calls in the store-level specification
MaxTokenLen == 3    \* characters of a generated text after a count marker
MaxSourceWords == 2 \* words of the source text of a generated page

----------------------------------------------------------------------------
(* Values.  A JS null / SQL NULL is the empty tuple, a present value v is  *)
(* <<v>>, so that null differs from every value, the empty string too.     *)

NULL == <<>>
Some(v) == <<v>>

\* JS falsiness of a nullable string: null or "".  (!record.alert_id)
Falsy(x) == x = NULL \/ x = Some(<<>>)

Last(s) == s[Len(s)]

----------------------------------------------------------------------------
(* Text.  A string is the sequence of its characters. *)

Digits == {"0", "1", "2", "3", "4", "5", "6", "7", "8", "9"}
UpperCase == <<"A", "B", "C", "D", "E", "F", "G", "H", "I", "J", "K", "L", "M",
               "N", "O", "P", "Q", "R", "S", "T", "U", "V", "W", "X", "Y", "Z">>
LowerCase == <<"a", "b", "c", "d", "e", "f", "g", "h", "i", "j", "k", "l", "m",
               "n", "o", "p", "q", "r", "s", "t", "u", "v", "w", "x", "y", "z">>
Range(s) == {s[i] : i \in 1..Len(s)}

\* \w of a JS regular expression
WordChars == Digits \cup Range(UpperCase) \cup Range(LowerCase) \cup {"_"}

DigitVal(c) == CHOOSE n \in 0..9 : <<"0", "1", "2", "3", "4", "5", "6", "7", "8", "9">>[n + 1] = c

\* String.prototype.toLowerCase, per character
LowerChar(c) ==
  IF c \in Range(UpperCase)
  THEN LowerCase[CHOOSE i \in 1..26 : UpperCase[i] = c]
  ELSE c
toLowerCase(s) == [i \in 1..Len(s) |-> LowerChar(s[i])]

\* Length of the longest prefix of s made of characters of set cs
PrefixLen(s, cs) ==
  CHOOSE n \in 0..Len(s) :
    /\ \A i \in 1..n : s[i] \in cs
    /\ n = Len(s) \/ s[n + 1] \notin cs

\* \s of a JS regular expression, as far as the texts here use it
WhiteSpace == {" ", "\t"}

\* String.prototype.trim
Trim(s) ==
  IF \A i \in 1..Len(s) : s[i] \in WhiteSpace THEN <<>>
  ELSE LET a == CHOOSE i \in 1..Len(s) :
                  s[i] \notin WhiteSpace /\ \A j \in 1..(i - 1) : s[j] \in WhiteSpace
           b == CHOOSE i \in 1..Len(s) :
                  s[i] \notin WhiteSpace /\ \A j \in (i + 1)..Len(s) : s[j] \in WhiteSpace
       IN SubSeq(s, a, b)

\* String.prototype.startsWith
startsWith(s, pre) == Len(s) >= Len(pre) /\ SubSeq(s, 1, Len(pre)) = pre

\* Index of the first occurrence of character c in s at or after from, 0 if none
IndexFrom(s, c, from) ==
  IF \E i \in from..Len(s) : s[i] = c
  THEN CHOOSE i \in from..Len(s) : s[i] = c /\ \A j \in from..(i - 1) : s[j] # c
  ELSE 0

\* disease.split("-")[1]: NULL stands for undefined (no separator in s)
SplitSecond(s) ==
  LET i == IndexFrom(s, "-", 1)
      j == IndexFrom(s, "-", i + 1)
  IN IF i = 0 THEN NULL
     ELSE Some(SubSeq(s, i + 1, IF j = 0 THEN Len(s) ELSE j - 1))

\* Value of a non-empty digit string
RECURSIVE DecimalValue(_)
DecimalValue(ds) ==
  IF ds = <<>> THEN 0
  ELSE 10 * DecimalValue(SubSeq(ds, 1, Len(ds) - 1)) + DigitVal(ds[Len(ds)])

\* parseInt(value, 10): an optional sign, then the value of the leading
\* digits; NULL stands for NaN.
parseInt10(value) ==
  LET signed == value # <<>> /\ value[1] \in {"+", "-"}
      rest == IF signed THEN Tail(value) ELSE value
      n == PrefixLen(rest, Digits)
      magnitude == DecimalValue(SubSeq(rest, 1, n))
  IN IF n = 0 THEN NULL
     ELSE Some(IF signed /\ value[1] = "-" THEN 0 - magnitude ELSE magnitude)

Unknown == <<"u", "n", "k", "n", "o", "w", "n">>

\* toNum(value): value is the captured group, a non-empty string or absent
toNum(value) ==
  IF value = <<>> \/ toLowerCase(value) = Unknown THEN NULL
  ELSE parseInt10(value)

----------------------------------------------------------------------------
(* County pins.  Coordinates are held in units of 1/10000 degree, so that  *)
(* 36.1156 is 361156.                                                      *)

COUNTY_COORDS == {
    [key |-> <<"L", "a", "n", "c", "a", "s", "t", "e", "r", " ", "C", "o", "u", "n", "t", "y", ",", " ", "P", "A">>,
     lat |-> 400379, lng |-> -763055],
    [key |-> <<"P", "a", "y", "n", "e", " ", "C", "o", "u", "n", "t", "y", ",", " ", "O", "K">>,
     lat |-> 361156, lng |-> -970584],
    [key |-> <<"L", "o", "g", "a", "n", " ", "C", "o", "u", "n", "t", "y", ",", " ", "O", "K">>,
     lat |-> 358784, lng |-> -974253],
    [key |-> <<"R", "o", "c", "k", "y", " ", "V", "i", "e", "w", " ", "C", "o", "u", "n", "t", "y", ",", " ", "A", "B">>,
     lat |-> 512000, lng |-> -1142000],
    [key |-> <<"H", "a", "r", "r", "i", "s", " ", "C", "o", "u", "n", "t", "y", ",", " ", "T", "X">>,
     lat |-> 297604, lng |-> -953698],
    [key |-> <<"E", "r", "a", "t", "h", " ", "C", "o", "u", "n", "t", "y", ",", " ", "T", "X">>,
     lat |-> 322207, lng |-> -982023],
    [key |-> <<"L", "e", "e", " ", "C", "o", "u", "n", "t", "y", ",", " ", "T", "X">>,
     lat |-> 301822, lng |-> -969369],
    [key |-> <<"R", "a", "n", "d", "a", "l", "l", " ", "C", "o", "u", "n", "t", "y", ",", " ", "T", "X">>,
     lat |-> 349770, lng |-> -1019180],
    [key |-> <<"P", "a", "r", "k", "e", "r", " ", "C", "o", "u", "n", "t", "y", ",", " ", "T", "X">>,
     lat |-> 327593, lng |-> -977973],
    [key |-> <<"H", "y", "d", "e", " ", "C", "o", "u", "n", "t", "y", ",", " ", "S", "D">>,
     lat |-> 445214, lng |-> -994454],
    [key |-> <<"L", "o", "v", "e", " ", "C", "o", "u", "n", "t", "y", ",", " ", "O", "K">>,
     lat |-> 339387, lng |-> -971167],
    [key |-> <<"E", "d", "d", "y", " ", "C", "o", "u", "n", "t", "y", ",", " ", "N", "M">>,
     lat |-> 324207, lng |-> -1042288],
    [key |-> <<"M", "c", "L", "e", "n", "n", "a", "n", " ", "C", "o", "u", "n", "t", "y", ",", " ", "T", "X">>,
     lat |-> 315493, lng |-> -971467],
    [key |-> <<"H", "o", "o", "d", " ", "C", "o", "u", "n", "t", "y", ",", " ", "T", "X">>,
     lat |-> 324421, lng |-> -977942],
    [key |-> <<"W", "i", "s", "e", " ", "C", "o", "u", "n", "t", "y", ",", " ", "T", "X">>,
     lat |-> 332340, lng |-> -975867],
    [key |-> <<"D", "o", "n", "a", " ", "A", "n", "a", " ", "C", "o", "u", "n", "t", "y", ",", " ", "N", "M">>,
     lat |-> 323199, lng |-> -1067637],
    [key |-> <<"L", "a", "r", "i", "m", "e", "r", " ", "C", "o", "u", "n", "t", "y", ",", " ", "C", "O">>,
     lat |-> 405853, lng |-> -1050844],
    [key |-> <<"F", "o", "r", "t", " ", "B", "e", "n", "d", " ", "C", "o", "u", "n", "t", "y", ",", " ", "T", "X">>,
     lat |-> 295822, lng |-> -957608],
    [key |-> <<"B", "e", "l", "l", " ", "C", "o", "u", "n", "t", "y", ",", " ", "T", "X">>,
     lat |-> 310560, lng |-> -974645],
    [key |-> <<"M", "a", "y", "e", "s", " ", "C", "o", "u", "n", "t", "y", ",", " ", "O", "K">>,
     lat |-> 363084, lng |-> -953161],
    [key |-> <<"W", "h", "a", "r", "t", "o", "n", " ", "C", "o", "u", "n", "t", "y", ",", " ", "T", "X">>,
     lat |-> 293119, lng |-> -961030],
    [key |-> <<"M", "o", "n", "t", "g", "o", "m", "e", "r", "y", " ", "C", "o", "u", "n", "t", "y", ",", " ", "T", "X">>,
     lat |-> 303119, lng |-> -954561],
    [key |-> <<"E", "a", "s", "t", " ", "B", "a", "t", "o", "n", " ", "R", "o", "u", "g", "e", " ", "P", "a", "r", "i", "s", "h", ",", " ", "L", "A">>,
     lat |-> 304515, lng |-> -911871],
    [key |-> <<"S", "t", ".", " ", "M", "a", "r", "y", "'", "s", " ", "C", "o", "u", "n", "t", "y", ",", " ", "M", "D">>,
     lat |-> 382918, lng |-> -766352],
    [key |-> <<"R", "e", "d", " ", "D", "e", "e", "r", " ", "C", "o", "u", "n", "t", "y", ",", " ", "A", "B">>,
     lat |-> 522681, lng |-> -1138112],
    [key |-> <<"R", "e", "g", "i", "o", "n", "a", "l", " ", "M", "u", "n", "i", "c", "i", "p", "a", "l", "i", "t", "y", " ", "o", "f", " ", "W", "a", "t", "e", "r", "l", "o", "o", ",", " ", "O", "N">>,
     lat |-> 434643, lng |-> -805204],
    [key |-> <<"R", "e", "g", "i", "o", "n", "a", "l", " ", "M", "u", "n", "i", "c", "i", "p", "a", "l", "i", "t", "y", " ", "o", "f", " ", "H", "a", "l", "t", "o", "n", ",", " ", "O", "N">>,
     lat |-> 434675, lng |-> -796877],
    [key |-> <<"O", "k", "l", "a", "h", "o", "m", "a", " ", "C", "o", "u", "n", "t", "y", ",", " ", "O", "K">>,
     lat |-> 354676, lng |-> -975164],
    [key |-> <<"W", "a", "l", "l", "e", "r", " ", "C", "o", "u", "n", "t", "y", ",", " ", "T", "X">>,
     lat |-> 300972, lng |-> -960783],
    [key |-> <<"M", "c", "C", "l", "a", "i", "n", " ", "C", "o", "u", "n", "t", "y", ",", " ", "O", "K">>,
     lat |-> 350137, lng |-> -973614],
    [key |-> <<"M", "a", "d", "i", "s", "o", "n", " ", "C", "o", "u", "n", "t", "y", ",", " ", "O", "H">>,
     lat |-> 398864, lng |-> -834483],
    [key |-> <<"N", "o", "r", "t", "h", "u", "m", "b", "e", "r", "l", "a", "n", "d", " ", "C", "o", "u", "n", "t", "y", ",", " ", "P", "A">>,
     lat |-> 408620, lng |-> -767944],
    [key |-> <<"M", "a", "r", "i", "c", "o", "p", "a", " ", "C", "o", "u", "n", "t", "y", ",", " ", "A", "Z">>,
     lat |-> 334484, lng |-> -1120740],
    [key |-> <<"S", "p", "o", "k", "a", "n", "e", " ", "C", "o", "u", "n", "t", "y", ",", " ", "W", "A">>,
     lat |-> 476588, lng |-> -1174260],
    [key |-> <<"B", "e", "a", "v", "e", "r", "h", "e", "a", "d", " ", "C", "o", "u", "n", "t", "y", ",", " ", "M", "T">>,
     lat |-> 452166, lng |-> -1126360],
    [key |-> <<"W", "a", "u", "p", "a", "c", "a", " ", "C", "o", "u", "n", "t", "y", ",", " ", "W", "I">>,
     lat |-> 443580, lng |-> -890859] }

Neurologic == <<"N", "e", "u", "r", "o", "l", "o", "g", "i", "c">>
Respiratory == <<"R", "e", "s", "p", "i", "r", "a", "t", "o", "r", "y">>

\* name.replace(/\s+/g, " ")
RECURSIVE CollapseSpaces(_)
CollapseSpaces(s) ==
  IF s = <<>> THEN <<>>
  ELSE IF s[1] \in WhiteSpace
  THEN <<" ">> \o CollapseSpaces(SubSeq(s, PrefixLen(s, WhiteSpace) + 1, Len(s)))
  ELSE <<s[1]>> \o CollapseSpaces(Tail(s))

\* Variant of StripClinical: the pattern has no i flag
StripClinicalCaseSensitive(name) ==
  LET hits == {w \in {Neurologic, Respiratory} :
                 /\ Len(name) > Len(w)
                 /\ SubSeq(name, 1, Len(w)) = w
                 /\ name[Len(w) + 1] \in WhiteSpace}
  IN IF hits = {} THEN name
     ELSE LET rest == SubSeq(name, Len(CHOOSE w \in hits : TRUE) + 1, Len(name))
          IN SubSeq(rest, PrefixLen(rest, WhiteSpace) + 1, Len(rest))
\* name.replace(/^(Neurologic|Respiratory)\s+/i, "")
StripClinical(name) ==
  LET hits == {w \in {Neurologic, Respiratory} :
                 /\ Len(name) > Len(w)
                 /\ toLowerCase(SubSeq(name, 1, Len(w))) = toLowerCase(w)
                 /\ name[Len(w) + 1] \in WhiteSpace}
  IN IF hits = {} THEN name
     ELSE LET rest == SubSeq(name, Len(CHOOSE w \in hits : TRUE) + 1, Len(name))
          IN SubSeq(rest, PrefixLen(rest, WhiteSpace) + 1, Len(rest))

\* makeCountyKey(countyRaw, state): NULL, or the key "County, ST"
makeCountyKey(countyRaw, state) ==
  IF Falsy(countyRaw) \/ Falsy(state) THEN NULL
  ELSE Some(CollapseSpaces(StripClinical(Trim(countyRaw[1])))
            \o <<",", " ">> \o state[1])

NoCoords == [lat |-> NULL, lng |-> NULL]

\* getCoordsForCounty(countyRaw, state)
getCoordsForCounty(countyRaw, state) ==
  LET key == makeCountyKey(countyRaw, state)
      hits == {e \in COUNTY_COORDS : key # NULL /\ e.key = key[1]}
  IN IF key = NULL \/ hits = {} THEN NoCoords
     ELSE LET e == CHOOSE e \in hits : TRUE
          IN [lat |-> Some(e.lat), lng |-> Some(e.lng)]

----------------------------------------------------------------------------
(* Alert pages.  A page is held by the parts the extraction rules read:    *)
(* body names its whitespace-normalized body text, links are the texts of  *)
(* its <a> elements in document order, and alertTok, outbreakTok,          *)
(* confirmedTok, suspectedTok, exposedTok and euthanizedTok are the text   *)
(* that follows the first "Alert ID:", "Outbreak Identifier:", "Number     *)
(* Confirmed:", "Number Suspected:", "Number Exposed:" and "Number         *)
(* Euthanized:" marker and its whitespace (NULL when the marker is         *)
(* absent).                                                                *)

FamilyName == <<"E", "q", "u", "i", "n", "e", " ", "H", "e", "r", "p", "e", "s", "v", "i", "r", "u", "s">>

\* First link text, trimmed, that starts with the family name ($("a").each)
DiseaseOf(links) ==
  LET hits == {i \in 1..Len(links) : startsWith(Trim(links[i]), FamilyName)}
  IN IF hits = {} THEN NULL
     ELSE Some(Trim(links[CHOOSE i \in hits : \A j \in hits : i <= j]))

\* category: parts[1] ? parts[1].trim() : null
CategoryOf(disease) ==
  IF disease = NULL THEN NULL
  ELSE LET p == SplitSecond(disease[1])
       IN IF p = NULL \/ p[1] = <<>> THEN NULL ELSE Some(Trim(p[1]))

\* bodyText.match(/<marker>\s*(\d+)/i): the captured digits, NULL if no match
MatchDigits(tok) ==
  IF tok = NULL THEN NULL
  ELSE LET n == PrefixLen(tok[1], Digits)
       IN IF n = 0 THEN NULL ELSE Some(SubSeq(tok[1], 1, n))

\* Variant of MatchWord: the class of the group also takes the minus sign,
\* /<marker>\s*([-\w]+)/i
MatchWordWithSign(tok) ==
  IF tok = NULL THEN NULL
  ELSE LET n == PrefixLen(tok[1], WordChars \cup {"-"})
       IN IF n = 0 THEN NULL ELSE Some(SubSeq(tok[1], 1, n))
\* bodyText.match(/<marker>\s*([\w]+)/i): the captured word, NULL if no match
MatchWord(tok) ==
  IF tok = NULL THEN NULL
  ELSE LET n == PrefixLen(tok[1], WordChars)
       IN IF n = 0 THEN NULL ELSE Some(SubSeq(tok[1], 1, n))

\* bodyText.match(/Source:\s*([^N]+?)Number/i), then match[1].trim().  With
\* the i flag the class [^N] takes neither "N" nor "n", so the group ends at
\* the first of them, and the match needs "Number" to begin right there;
\* the whitespace \s* takes or leaves does not change the trimmed group.
SourceOf(text) ==
  LET marker == <<"s", "o", "u", "r", "c", "e", ":">>
      number == <<"n", "u", "m", "b", "e", "r">>
      At(i, w) == i + Len(w) - 1 <= Len(text)
                  /\ toLowerCase(SubSeq(text, i, i + Len(w) - 1)) = w
      FirstN(i) == IndexFrom(toLowerCase(text), "n", i + Len(marker))
      starts == {i \in 1..Len(text) :
                   /\ At(i, marker)
                   /\ FirstN(i) > i + Len(marker)
                   /\ At(FirstN(i), number)}
  IN IF starts = {} THEN NULL
     ELSE LET i == CHOOSE i \in starts : \A k \in starts : i <= k
          IN Some(Trim(SubSeq(text, i + Len(marker), FirstN(i) - 1)))

\* parseAlertHtml(html): the candidate record
parseAlertHtml(page) ==
  LET disease == DiseaseOf(page.links)
      num_confirmedMatch == MatchWord(page.confirmedTok)
      num_suspectedMatch == MatchWord(page.suspectedTok)
      num_exposedMatch == MatchWord(page.exposedTok)
      num_euthanizedMatch == MatchWord(page.euthanizedTok)
  IN [ alert_id            |-> MatchDigits(page.alertTok),
       outbreak_identifier |-> MatchDigits(page.outbreakTok),
       disease             |-> disease,
       category            |-> CategoryOf(disease),
       num_confirmed       |-> IF num_confirmedMatch = NULL THEN NULL
                               ELSE toNum(num_confirmedMatch[1]),
       num_suspected       |-> IF num_suspectedMatch = NULL THEN NULL
                               ELSE toNum(num_suspectedMatch[1]),
       num_exposed         |-> IF num_exposedMatch = NULL THEN NULL
                               ELSE toNum(num_exposedMatch[1]),
       num_euthanized      |-> IF num_euthanizedMatch = NULL THEN NULL
                               ELSE toNum(num_euthanizedMatch[1]),
       raw_text            |-> Some(page.body) ]

\* The versions of the remote alert pages
PageA1 == [ body |-> "A1",
            links |-> << <<"H", "o", "m", "e">>,
                         <<" ", "E", "q", "u", "i", "n", "e", " ", "H", "e", "r", "p", "e", "s", "v", "i", "r", "u", "s", "-", " ", "N", "e", "u", "r", "o", "l", "o", "g", "i", "c", " ">> >>,
            alertTok |-> Some(<<"1", "0", "1">>),
            outbreakTok |-> Some(<<"9", "8", "7">>),
            confirmedTok |-> Some(<<"2">>),
            suspectedTok |-> Some(<<"u", "n", "k", "n", "o", "w", "n">>),
            exposedTok |-> Some(<<"3">>),
            euthanizedTok |-> Some(<<"-", "1">>) ]
PageA2 == [ body |-> "A2",
            links |-> << <<"H", "o", "m", "e">> >>,
            alertTok |-> Some(<<"1", "0", "1", " ">>),
            outbreakTok |-> NULL,
            confirmedTok |-> Some(<<"U", "n", "k", "n", "o", "w", "n">>),
            suspectedTok |-> Some(<<"U", "N", "K", "N", "O", "W", "N">>),
            exposedTok |-> Some(<<"x", "1">>),
            euthanizedTok |-> NULL ]
PageB1 == [ body |-> "B1",
            links |-> << <<"E", "q", "u", "i", "n", "e", " ", "H", "e", "r", "p", "e", "s", "v", "i", "r", "u", "s", "-", " ", "R", "e", "s", "p", "i", "r", "a", "t", "o", "r", "y">> >>,
            alertTok |-> NULL,
            outbreakTok |-> Some(<<"9", "8", "7">>),
            confirmedTok |-> Some(<<"1", "2", "x">>),
            suspectedTok |-> Some(<<"0", "0", "7">>),
            exposedTok |-> Some(<<"U", "n", "k", "n", "o", "w", "n", "7">>),
            euthanizedTok |-> Some(<<"_">>) ]
PageB2 == [ body |-> "B2",
            links |-> << <<"E", "q", "u", "i", "n", "e", " ", "H", "e", "r", "p", "e", "s", "v", "i", "r", "u", "s", "-", " ", "R", "e", "s", "p", "i", "r", "a", "t", "o", "r", "y">> >>,
            alertTok |-> Some(<<"1", "0", "2">>),
            outbreakTok |-> Some(<<"9", "8", "7">>),
            confirmedTok |-> Some(<<"0">>),
            suspectedTok |-> Some(<<"1", ",", "2", "0", "0">>),
            exposedTok |-> Some(<<"3", ".", "5">>),
            euthanizedTok |-> Some(<<"0">>) ]
PageC1 == [ body |-> "C1",
            links |-> << <<"E", "q", "u", "i", "n", "e", " ", "H", "e", "r", "p", "e", "s", "v", "i", "r", "u", "s">> >>,
            alertTok |-> Some(<<"1", "0", "3">>),
            outbreakTok |-> Some(<<"5", "5">>),
            confirmedTok |-> NULL,
            suspectedTok |-> Some(<<"N", "/", "A">>),
            exposedTok |-> Some(<<"u", "n", "K", "n", "o", "w", "n">>),
            euthanizedTok |-> Some(<<"1", "2", " ", "h", "o", "r", "s", "e", "s">>) ]

\* The successive versions of the page behind alertID query value q
PagesOf(q) ==
  CASE q = 1 -> <<PageA1, PageA2>>
    [] q = 2 -> <<PageB1, PageB2>>
    [] OTHER -> <<PageC1>>

\* The page the site serves for q at version v
Content(q, v) == PagesOf(q)[v]

AllPages == {PageA1, PageA2, PageB1, PageB2, PageC1}

\* The candidate of every page, extracted once
Extracted == [pg \in AllPages |-> parseAlertHtml(pg)]
Candidates == {Extracted[pg] : pg \in AllPages}
AlertIds == {c.alert_id : c \in Candidates} \ {NULL}

----------------------------------------------------------------------------
(* The store: table outbreaks and its prepared statements.  A statement    *)
(* gives [db, err]: the rows after it and whether it threw.                *)

NonKeyFields == {"outbreak_identifier", "disease", "category", "num_confirmed",
                 "num_suspected", "num_exposed", "num_euthanized", "raw_text"}

\* id INTEGER PRIMARY KEY AUTOINCREMENT
NextRowId(db) == IF db = {} THEN 1 ELSE 1 + CHOOSE n \in {r.id : r \in db} : \A r \in db : r.id <= n

\* Variant of RowOf: the VALUES list binds @outbreak_identifier twice, so
\* column alert_id gets the outbreak identifier
RowOfKeyFromOutbreak(id, rec) ==
  [ id |-> id, alert_id |-> rec.outbreak_identifier,
    outbreak_identifier |-> rec.outbreak_identifier,
    disease |-> rec.disease, category |-> rec.category,
    num_confirmed |-> rec.num_confirmed, num_suspected |-> rec.num_suspected,
    num_exposed |-> rec.num_exposed, num_euthanized |-> rec.num_euthanized,
    raw_text |-> rec.raw_text ]
\* The row INSERT builds from the named parameters of rec (VALUES list)
RowOf(id, rec) ==
  [ id |-> id, alert_id |-> rec.alert_id,
    outbreak_identifier |-> rec.outbreak_identifier,
    disease |-> rec.disease, category |-> rec.category,
    num_confirmed |-> rec.num_confirmed, num_suspected |-> rec.num_suspected,
    num_exposed |-> rec.num_exposed, num_euthanized |-> rec.num_euthanized,
    raw_text |-> rec.raw_text ]

\* The candidate a row holds: the row without its rowid
RecOf(r) == [f \in (DOMAIN r) \ {"id"} |-> r[f]]

\* alert_id TEXT UNIQUE: a new row violates it when another row has the same
\* non-NULL alert_id (SQL lets any number of rows hold NULL)
UniqueViolated(db, row) ==
  row.alert_id # NULL /\ \E r \in db : r.alert_id = row.alert_id

\* selectByAlertId.get(aid): the rows WHERE alert_id = aid (none for NULL)
selectByAlertId(db, aid) == {r \in db : aid # NULL /\ r.alert_id = aid}

\* insertOutbreak.run(rec)
insertOutbreak(db, rec) ==
  LET row == RowOf(NextRowId(db), rec)
  IN IF UniqueViolated(db, row)
     THEN [db |-> db, err |-> TRUE]
     ELSE [db |-> db \cup {row}, err |-> FALSE]

\* Variant of updateOutbreak: a field-level merge, SET col = COALESCE(@col, col)
updateOutbreakCoalesce(db, rec) ==
  [ db  |-> { IF rec.alert_id # NULL /\ r.alert_id = rec.alert_id
              THEN [f \in DOMAIN r |->
                      IF f \in NonKeyFields /\ rec[f] # NULL THEN rec[f] ELSE r[f]]
              ELSE r : r \in db },
    err |-> FALSE ]
\* Variant of updateOutbreak: the SET list leaves out raw_text
updateOutbreakKeepsRawText(db, rec) ==
  [ db  |-> { IF rec.alert_id # NULL /\ r.alert_id = rec.alert_id
              THEN [f \in DOMAIN r |->
                      IF f \in NonKeyFields \ {"raw_text"} THEN rec[f] ELSE r[f]]
              ELSE r : r \in db },
    err |-> FALSE ]
\* Variant of updateOutbreak: the SET list leaves out disease
updateOutbreakKeepsDisease(db, rec) ==
  [ db  |-> { IF rec.alert_id # NULL /\ r.alert_id = rec.alert_id
              THEN [f \in DOMAIN r |->
                      IF f \in NonKeyFields \ {"disease"} THEN rec[f] ELSE r[f]]
              ELSE r : r \in db },
    err |-> FALSE ]
\* Variant of updateOutbreak: the WHERE clause is missing, every row is set
updateOutbreakNoWhere(db, rec) ==
  [ db  |-> { [f \in DOMAIN r |-> IF f \in NonKeyFields THEN rec[f] ELSE r[f]] :
              r \in db },
    err |-> FALSE ]
\* updateOutbreak.run(rec): SET every non-key column WHERE alert_id = @alert_id
updateOutbreak(db, rec) ==
  [ db  |-> { IF rec.alert_id # NULL /\ r.alert_id = rec.alert_id
              THEN [f \in DOMAIN r |-> IF f \in NonKeyFields THEN rec[f] ELSE r[f]]
              ELSE r : r \in db },
    err |-> FALSE ]

\* Variant of upsertOutbreak: without the guard on record.alert_id
upsertOutbreakNoGuard(db, record) ==
  IF selectByAlertId(db, record.alert_id) # {}
  THEN updateOutbreak(db, record)
  ELSE insertOutbreak(db, record)
\* Variant of upsertOutbreak: an existing row is deleted to be inserted anew,
\* and the insert is left out
upsertOutbreakDeleteInsert(db, record) ==
  IF Falsy(record.alert_id) THEN [db |-> db, err |-> FALSE]
  ELSE IF selectByAlertId(db, record.alert_id) # {}
       THEN [db |-> db \ selectByAlertId(db, record.alert_id), err |-> FALSE]
       ELSE insertOutbreak(db, record)
\* upsertOutbreak(record)
upsertOutbreak(db, record) ==
  IF Falsy(record.alert_id) THEN [db |-> db, err |-> FALSE]
  ELSE IF selectByAlertId(db, record.alert_id) # {}
       THEN updateOutbreak(db, record)
       ELSE insertOutbreak(db, record)

----------------------------------------------------------------------------
(* Alert discovery.  An href is held by its form:                          *)
(*   "root"  /alerts?alertID=<q>                                           *)
(*   "abs"   https://<host>/alerts?alertID=<q>                             *)
(*   "sub"   archive/alerts?alertID=<q>       (relative, below a folder)   *)
(*   "rel"   alerts?alertID=<q>               (no "/" before "alerts")     *)
(*   "bad"   http://[/alerts?alertID=<q>      (new URL() throws on it)     *)
(*   "other" a link to something else, "none" an <a> without href ("")     *)
(* An absolute URL is [host, path, q].                                     *)

EDCC_BASE == "www.equinediseasecc.org"

Href(form, host, q) == [form |-> form, host |-> host, q |-> q]

\* href.includes("/alerts?alertID=")
includesMarker(href) == href.form \in {"root", "abs", "sub", "bad"}

\* new URL(href, EDCC_BASE) throws a TypeError
InvalidURL(href) == href.form = "bad"

\* new URL(href, EDCC_BASE).toString()
resolveURL(href) ==
  CASE href.form = "abs" -> [host |-> href.host, path |-> "/alerts", q |-> href.q]
    [] href.form = "sub" -> [host |-> EDCC_BASE, path |-> "/archive/alerts", q |-> href.q]
    [] OTHER             -> [host |-> EDCC_BASE, path |-> "/alerts", q |-> href.q]

\* Set.prototype.add on an insertion-ordered Set
SetAdd(urls, u) == IF u \in Range(urls) THEN urls ELSE Append(urls, u)

\* The $("a").each loop over the anchors' hrefs: [urls, err]
RECURSIVE CollectUrls(_, _)
CollectUrls(hrefs, urls) ==
  IF hrefs = <<>> THEN [urls |-> urls, err |-> FALSE]
  ELSE LET h == Head(hrefs)
       IN IF ~includesMarker(h) THEN CollectUrls(Tail(hrefs), urls)
          ELSE IF InvalidURL(h) THEN [urls |-> <<>>, err |-> TRUE]
          ELSE CollectUrls(Tail(hrefs), SetAdd(urls, resolveURL(h)))

BatchCap == 10

\* Variant of getLatestAlertUrls: the URLs are pushed to an array, not added
\* to a Set
getLatestAlertUrlsNoDedup(hrefs) ==
  LET hs == SelectSeq(hrefs, includesMarker)
      all == [i \in 1..Len(hs) |-> resolveURL(hs[i])]
  IN IF \E i \in 1..Len(hs) : InvalidURL(hs[i]) THEN [urls |-> <<>>, err |-> TRUE]
     ELSE [urls |-> SubSeq(all, 1, IF Len(all) < BatchCap THEN Len(all) ELSE BatchCap),
           err |-> FALSE]
\* Variant of getLatestAlertUrls: the array is returned whole, without
\* slice(0, 10)
getLatestAlertUrlsNoCap(hrefs) == CollectUrls(hrefs, <<>>)
\* getLatestAlertUrls() on a listing page that was fetched with success:
\* [urls, err], err when it throws
getLatestAlertUrls(hrefs) ==
  LET r == CollectUrls(hrefs, <<>>)
  IN IF r.err THEN r
     ELSE [urls |-> SubSeq(r.urls, 1, IF Len(r.urls) < BatchCap THEN Len(r.urls) ELSE BatchCap),
           err |-> FALSE]

\* Listing pages the site serves to the sync passes
Listings ==
  { << Href("root", EDCC_BASE, 1), Href("other", EDCC_BASE, 0),
       Href("abs", EDCC_BASE, 1), Href("root", EDCC_BASE, 2) >>,
    << Href("sub", EDCC_BASE, 2), Href("root", EDCC_BASE, 3) >>,
    << Href("rel", EDCC_BASE, 1), Href("none", EDCC_BASE, 0) >>,
    << Href("root", EDCC_BASE, 1), Href("bad", EDCC_BASE, 2) >> }

Queries == {1, 2, 3}

\* The site serves an alert page only at /alerts on its own host
Served(u) == u.host = EDCC_BASE /\ u.path = "/alerts" /\ u.q \in Queries

----------------------------------------------------------------------------
(* The sync orchestrator.  passes[p] is one call of syncFromEDCC:          *)
(*   pc        "getUrls" (awaiting getLatestAlertUrls), "fetchAlert"       *)
(*             (awaiting fetchAlert(urls[i])) or "done" (promise settled)  *)
(*   resp      the version of the page of urls[i] that the site has sent   *)
(*             and that the pass has not handled yet                       *)
(*   log       what the pass did at each URL it has finished               *)
(*   rejected  whether the promise of the call was rejected                *)
(*   response  what the POST /admin/sync-edcc handler has sent: "none",    *)
(*             "ok" ({ ok: true }) or "error500" (Sync failed)             *)

NewPass(t) ==
  [ trigger |-> t, pc |-> "getUrls", discovery |-> "pending", urls |-> <<>>,
    i |-> 0, resp |-> NULL, log |-> <<>>, rejected |-> FALSE,
    response |-> "none" ]

Entry(u, outcome, rec) == [url |-> u, outcome |-> outcome, rec |-> rec]

\* End of one iteration of for (const url of urls): on to the next URL, or
\* past the loop to "Sync finished"
NextIteration(ps, entry) ==
  [ ps EXCEPT !.log = Append(@, entry), !.resp = NULL, !.i = @ + 1,
              !.pc = IF ps.i + 1 > Len(ps.urls) THEN "done" ELSE "fetchAlert" ]

\* Variant of CaughtAtUrl: the try/catch is around the loop, not inside it
CaughtAtUrlAborts(ps, entry) ==
  [ ps EXCEPT !.log = Append(@, entry), !.resp = NULL, !.pc = "done",
              !.rejected = TRUE ]
\* catch (err) of the loop body: log the URL, go on with the next one
CaughtAtUrl(ps, entry) == NextIteration(ps, entry)

\* Variant of DiscoveryFailed: the catch logs and throws again
DiscoveryFailedRethrows(ps) ==
  [ps EXCEPT !.pc = "done", !.discovery = "failed", !.rejected = TRUE]
\* catch (err) around getLatestAlertUrls: log and return
DiscoveryFailed(ps) == [ps EXCEPT !.pc = "done", !.discovery = "failed"]

\* urls assigned: enter the loop, which is over at once for an empty batch
DiscoveryDone(ps, urls) ==
  [ ps EXCEPT !.discovery = "ok", !.urls = urls, !.i = 1,
              !.pc = IF urls = <<>> THEN "done" ELSE "fetchAlert" ]

Running(ps) == ps.pc # "done"

\* Variant of HandlerResponse: syncFromEDCC() is called without await, the
\* acknowledgment goes out while the pass is still running
HandlerResponseNoAwait(ps) ==
  IF ps.trigger = "post" THEN "ok" ELSE "none"
\* app.post("/admin/sync-edcc"): await syncFromEDCC(), then { ok: true };
\* a rejection lands in the catch, which answers 500
HandlerResponse(ps) ==
  IF ps.trigger = "post" /\ ps.pc = "done"
  THEN IF ps.rejected THEN "error500" ELSE "ok"
  ELSE "none"

\* The continuation of the caller runs in the turn in which the promise of
\* the pass settles, before any other callback
Settle(ps) == [ps EXCEPT !.response = HandlerResponse(ps)]

Init ==
  /\ store = {}
  /\ passes = <<NewPass("startup")>>
  /\ ver = [q \in Queries |-> 1]
  /\ latest = [a \in AlertIds |-> NULL]
  /\ calls = <<>>
  /\ doc = <<>>
  /\ found = getLatestAlertUrls(<<>>)
  /\ input = NULL
  /\ output = NULL

\* cron.schedule("0 * * * *", ...): the hourly timer starts a pass
CronTick ==
  /\ Len(passes) < MaxPasses
  /\ passes' = Append(passes, NewPass("cron"))
  /\ UNCHANGED <<store, ver, latest, calls, doc, found, input, output>>

\* POST /admin/sync-edcc starts a pass
PostSync ==
  /\ Len(passes) < MaxPasses
  /\ passes' = Append(passes, NewPass("post"))
  /\ UNCHANGED <<store, ver, latest, calls, doc, found, input, output>>

\* The site publishes the next version of an alert page
PageUpdate(q) ==
  /\ ver[q] < Len(PagesOf(q))
  /\ ver' = [ver EXCEPT ![q] = @ + 1]
  /\ UNCHANGED <<store, passes, latest, calls, doc, found, input, output>>

\* The listing page arrives and every href resolves
DiscoverOk(p, listing) ==
  /\ passes[p].pc = "getUrls"
  /\ ~getLatestAlertUrls(listing).err
  /\ passes' = [passes EXCEPT ![p] = Settle(DiscoveryDone(@, getLatestAlertUrls(listing).urls))]
  /\ UNCHANGED <<store, ver, latest, calls, doc, found, input, output>>

\* The listing page cannot be fetched (transport error, status not ok)
DiscoverFail(p) ==
  /\ passes[p].pc = "getUrls"
  /\ passes' = [passes EXCEPT ![p] = Settle(DiscoveryFailed(@))]
  /\ UNCHANGED <<store, ver, latest, calls, doc, found, input, output>>

\* The listing page arrives and new URL() throws on one of its hrefs
DiscoverThrows(p, listing) ==
  /\ passes[p].pc = "getUrls"
  /\ getLatestAlertUrls(listing).err
  /\ passes' = [passes EXCEPT ![p] = Settle(DiscoveryFailed(@))]
  /\ UNCHANGED <<store, ver, latest, calls, doc, found, input, output>>

\* The site answers the fetch of urls[i] with the page's current version
FetchRespond(p) ==
  LET ps == passes[p]
      u == ps.urls[ps.i]
      rec == Extracted[Content(u.q, ver[u.q])]
  IN /\ ps.pc = "fetchAlert"
     /\ ps.resp = NULL
     /\ Served(u)
     /\ passes' = [passes EXCEPT ![p].resp = Some(ver[u.q])]
     /\ latest' = IF Falsy(rec.alert_id) THEN latest
                  ELSE [latest EXCEPT ![rec.alert_id] = Some(rec)]
     /\ UNCHANGED <<store, ver, calls, doc, found, input, output>>

\* fetchAlert(urls[i]) throws: transport error or status not ok
FetchFail(p) ==
  LET ps == passes[p]
  IN /\ ps.pc = "fetchAlert"
     /\ ps.resp = NULL
     /\ passes' = [passes EXCEPT ![p] =
                     Settle(CaughtAtUrl(@, Entry(ps.urls[ps.i], "fetchFailed", NULL)))]
     /\ UNCHANGED <<store, ver, latest, calls, doc, found, input, output>>

\* The html of urls[i] is there: parse, skip without alert_id, else upsert;
\* then straight on to the fetch of the next URL
AlertArrives(p) ==
  LET ps == passes[p]
      u == ps.urls[ps.i]
      rec == Extracted[Content(u.q, ps.resp[1])]
      r == upsertOutbreak(store, rec)
  IN /\ ps.pc = "fetchAlert"
     /\ ps.resp # NULL
     /\ IF Falsy(rec.alert_id)
        THEN /\ passes' = [passes EXCEPT ![p] =
                             Settle(NextIteration(@, Entry(u, "missingId", Some(rec))))]
             /\ store' = store
        ELSE IF r.err
        THEN /\ passes' = [passes EXCEPT ![p] =
                             Settle(CaughtAtUrl(@, Entry(u, "storeFailed", Some(rec))))]
             /\ store' = store
        ELSE /\ passes' = [passes EXCEPT ![p] =
                             Settle(NextIteration(@, Entry(u, "upserted", Some(rec))))]
             /\ store' = r.db
     /\ UNCHANGED <<ver, latest, calls, doc, found, input, output>>

\* The html of urls[i] is there and the database refuses the statement
\* (file locked, disk error): the statement throws and changes nothing
StoreFails(p) ==
  LET ps == passes[p]
      u == ps.urls[ps.i]
      rec == Extracted[Content(u.q, ps.resp[1])]
  IN /\ ps.pc = "fetchAlert"
     /\ ps.resp # NULL
     /\ ~Falsy(rec.alert_id)
     /\ passes' = [passes EXCEPT ![p] =
                     Settle(CaughtAtUrl(@, Entry(u, "storeFailed", Some(rec))))]
     /\ UNCHANGED <<store, ver, latest, calls, doc, found, input, output>>

Next ==
  \/ CronTick
  \/ PostSync
  \/ \E q \in Queries : PageUpdate(q)
  \/ \E p \in 1..Len(passes) : \E l \in Listings : DiscoverOk(p, l)
  \/ \E p \in 1..Len(passes) : DiscoverFail(p)
  \/ \E p \in 1..Len(passes) : \E l \in Listings : DiscoverThrows(p, l)
  \/ \E p \in 1..Len(passes) : FetchRespond(p)
  \/ \E p \in 1..Len(passes) : FetchFail(p)
  \/ \E p \in 1..Len(passes) : AlertArrives(p)
  \/ \E p \in 1..Len(passes) : StoreFails(p)

Spec == Init /\ [][Next]_vars

----------------------------------------------------------------------------
(* The store on its own: upsertOutbreak called with any candidate, those   *)
(* without alert_id included.  calls records each call: the candidate, the *)
(* rows before it, and whether it threw.                                   *)

InitStore ==
  /\ store = {}
  /\ passes = <<>>
  /\ ver = [q \in Queries |-> 1]
  /\ latest = [a \in AlertIds |-> NULL]
  /\ calls = <<>>
  /\ doc = <<>>
  /\ found = getLatestAlertUrls(<<>>)
  /\ input = NULL
  /\ output = NULL

Upsert(c) ==
  /\ Len(calls) < MaxCalls
  /\ store' = upsertOutbreak(store, c).db
  /\ calls' = Append(calls, [rec |-> c, before |-> store,
                             err |-> upsertOutbreak(store, c).err])
  /\ UNCHANGED <<passes, ver, latest, doc, found, input, output>>

NextStore == \E c \in Candidates : Upsert(c)

SpecStore == InitStore /\ [][NextStore]_vars

\* The rows right after call k
After(k) == IF k = Len(calls) THEN store ELSE calls[k + 1].before

----------------------------------------------------------------------------
(* Alert discovery on its own: getLatestAlertUrls applied to listing pages *)
(* that grow one anchor at a time.  With n distinct alert links so far,    *)
(* the next anchor is a link to a new alert, a second link to alert 1 in   *)
(* absolute form, a link without the marker, or a link new URL() rejects   *)
(* (the call throws there, so nothing is appended after it).  A second     *)
(* link to alert 1 or a link without the marker never follows one of its   *)
(* own kind.                                                               *)

InitDiscover ==
  /\ store = {}
  /\ passes = <<>>
  /\ ver = [q \in Queries |-> 1]
  /\ latest = [a \in AlertIds |-> NULL]
  /\ calls = <<>>
  /\ doc = <<>>
  /\ found = getLatestAlertUrls(<<>>)
  /\ input = NULL
  /\ output = NULL

LastForm == IF doc = <<>> THEN "none" ELSE Last(doc).form

FreshCount == Cardinality({i \in 1..Len(doc) : doc[i].form = "root"})

AppendAnchor(h) ==
  /\ Len(doc) < MaxAnchors
  /\ \A i \in 1..Len(doc) : doc[i].form # "bad"
  /\ doc' = Append(doc, h)
  /\ found' = getLatestAlertUrls(doc')
  /\ UNCHANGED <<store, passes, ver, latest, calls, input, output>>

AppendFresh == AppendAnchor(Href("root", EDCC_BASE, FreshCount + 1))
AppendRepeat ==
  /\ FreshCount >= 1
  /\ LastForm # "abs"
  /\ AppendAnchor(Href("abs", EDCC_BASE, 1))
AppendOther ==
  /\ LastForm # "rel"
  /\ AppendAnchor(Href("rel", EDCC_BASE, FreshCount + 1))
AppendBad == AppendAnchor(Href("bad", EDCC_BASE, FreshCount + 1))

NextDiscover == AppendFresh \/ AppendRepeat \/ AppendOther \/ AppendBad

SpecDiscover == InitDiscover /\ [][NextDiscover]_vars

----------------------------------------------------------------------------
(* Properties *)

PassIds == 1..Len(passes)
LogIds(p) == 1..Len(passes[p].log)

\* Pass p has upserted candidate rec
Upserted(p, rec) ==
  \E k \in LogIds(p) : passes[p].log[k].outcome = "upserted" /\ passes[p].log[k].rec = Some(rec)

\* C1: in every reachable state of the store, under any interleaving of sync
\* passes started by the three triggers, no two rows have the same alert_id.
C1_UniqueAlertId ==
  \A r1 \in store : \A r2 \in store : r1.alert_id = r2.alert_id => r1 = r2

\* C1 witness: two passes have each upserted the same alert_id and the store
\* holds rows of two alerts.
C1_Witness ==
  /\ Cardinality(store) >= 2
  /\ \E p \in PassIds : \E q \in PassIds \ {p} :
       \E c1 \in Candidates : \E c2 \in Candidates :
         c1.alert_id = c2.alert_id /\ Upserted(p, c1) /\ Upserted(q, c2)

\* C2: when two successive upserts carry the same non-null alert_id, the
\* store then holds exactly one row for it, and every non-key field of that
\* row is the second candidate's value, null where the second is null.
C2_SecondUpsertReplaces ==
  \A k \in 2..Len(calls) :
    LET c1 == calls[k - 1].rec
        c2 == calls[k].rec
        rows == {r \in After(k) : r.alert_id = c2.alert_id}
    IN (~Falsy(c2.alert_id) /\ c1.alert_id = c2.alert_id) =>
         /\ Cardinality(rows) = 1
         /\ \A r \in rows : \A f \in (DOMAIN c2) \ {"alert_id"} : r[f] = c2[f]

\* C2 witness: the second of two upserts of one alert_id had null in a field
\* where the first had a value.
C2_Witness ==
  \E k \in 2..Len(calls) :
    LET c1 == calls[k - 1].rec
        c2 == calls[k].rec
    IN /\ ~Falsy(c2.alert_id) /\ c1.alert_id = c2.alert_id
       /\ \E f \in (DOMAIN c2) \ {"alert_id"} : c1[f] # NULL /\ c2[f] = NULL

\* C3: an upsert of a candidate whose alert_id is null returns without error
\* and leaves the rows as they were; no row ever has a null alert_id.
C3_NullIdIsNoOp ==
  /\ \A k \in 1..Len(calls) :
       Falsy(calls[k].rec.alert_id) => ~calls[k].err /\ After(k) = calls[k].before
  /\ \A r \in store : ~Falsy(r.alert_id)

\* C3 witness: a candidate without alert_id was upserted into a store that
\* already held a row.
C3_Witness ==
  \E k \in 1..Len(calls) : Falsy(calls[k].rec.alert_id) /\ calls[k].before # {}

\* C4: within one pass a failure at a URL (fetch error, candidate without
\* identifier, store error) does not end the pass: the pass goes through its
\* URLs in order, is done only when each has been handled, and every URL
\* whose fetch gave a candidate with an identifier went to the store.
C4_FailureDoesNotAbortBatch ==
  \A p \in PassIds :
    LET ps == passes[p]
    IN ps.discovery = "ok" =>
         /\ ps.pc = "done" => Len(ps.log) = Len(ps.urls)
         /\ ps.pc = "fetchAlert" => Len(ps.log) = ps.i - 1 /\ ps.i <= Len(ps.urls)
         /\ ~ps.rejected
         /\ \A k \in LogIds(p) :
              /\ ps.log[k].url = ps.urls[k]
              /\ (ps.log[k].rec # NULL /\ ~Falsy(ps.log[k].rec[1].alert_id))
                   => ps.log[k].outcome \in {"upserted", "storeFailed"}

\* C4 witness: a finished pass failed at one URL (fetch error, missing
\* identifier or store error) and upserted a later URL of its batch.
C4_Witness ==
  \E p \in PassIds :
    /\ passes[p].pc = "done"
    /\ \E k \in LogIds(p) : \E j \in LogIds(p) :
         /\ k < j
         /\ passes[p].log[k].outcome \in {"fetchFailed", "missingId", "storeFailed"}
         /\ passes[p].log[j].outcome = "upserted"

\* C5: when discovery fails in a pass, that step leaves the store as it was,
\* the pass is over without having fetched or upserted anything, its promise
\* is not rejected, and the pass does nothing afterwards.
C5_DiscoveryFailureLeavesStore ==
  [][ \A p \in PassIds :
        /\ (passes[p].pc = "getUrls" /\ passes'[p].discovery = "failed") =>
             /\ store' = store
             /\ passes'[p].pc = "done" /\ ~passes'[p].rejected
             /\ passes'[p].log = <<>> /\ passes'[p].urls = <<>> /\ passes'[p].resp = NULL
        /\ passes[p].discovery = "failed" => passes'[p] = passes[p] ]_vars

\* C5 witness: a pass whose discovery failed is over while the store holds
\* rows written by another pass.
C5_Witness ==
  /\ store # {}
  /\ \E p \in PassIds : passes[p].discovery = "failed" /\ passes[p].pc = "done"

\* C6: every row equals, field for field, one whole candidate that some pass
\* upserted; no row mixes the fields of two candidates.
C6_RowIsOneWholeCandidate ==
  \A r \in store : \E p \in PassIds : Upserted(p, RecOf(r))

\* C6 witness: two passes that are both still running have upserted
\* different candidates for the same alert_id.
C6_Witness ==
  \E p \in PassIds : \E q \in PassIds \ {p} :
    /\ Running(passes[p]) /\ Running(passes[q])
    /\ \E c1 \in Candidates : \E c2 \in Candidates :
         c1.alert_id = c2.alert_id /\ c1 # c2 /\ Upserted(p, c1) /\ Upserted(q, c2)

\* C7: once all passes have finished (and no store statement failed), the
\* row of every alert_id equals the candidate extracted from the most
\* recently fetched version of that alert's page.
C7_MostRecentFetchWins ==
  ( /\ \A p \in PassIds : ~Running(passes[p])
    /\ \A p \in PassIds : \A k \in LogIds(p) : passes[p].log[k].outcome # "storeFailed" )
  => \A r \in store : latest[r.alert_id] = Some(RecOf(r))

\* C8: at most one sync pass is in progress at any time.
C8_SinglePassInProgress ==
  Cardinality({p \in PassIds : Running(passes[p])}) <= 1

\* C9: no step removes a record: an alert_id that has a row before a step
\* has a row after it.
C9_NeverDeletes ==
  [][ \A r \in store : \E r2 \in store' : r2.alert_id = r.alert_id ]_vars

\* C9 witness: the store holds the row of an alert that two passes have
\* upserted, and both a fetch and a store statement have failed.
C9_Witness ==
  /\ store # {}
  /\ \E p \in PassIds : \E k \in LogIds(p) : passes[p].log[k].outcome = "fetchFailed"
  /\ \E p \in PassIds : \E k \in LogIds(p) : passes[p].log[k].outcome = "storeFailed"
  /\ \E p \in PassIds : \E q \in PassIds \ {p} :
       \E c1 \in Candidates : \E c2 \in Candidates :
         c1.alert_id = c2.alert_id /\ Upserted(p, c1) /\ Upserted(q, c2)

\* Positions of the listing's anchors that are alert links
AlertLinks == {i \in 1..Len(doc) : includesMarker(doc[i])}
\* The absolute alert URLs of the listing
ListedUrls == {resolveURL(doc[i]) : i \in AlertLinks}
\* Position of the first anchor that resolves to u
FirstAt(u) ==
  CHOOSE i \in AlertLinks :
    resolveURL(doc[i]) = u /\ \A j \in AlertLinks : resolveURL(doc[j]) = u => i <= j

\* C10: for every listing page, the sequence getLatestAlertUrls returns has
\* no duplicates and at most 10 URLs, and holds the first distinct absolute
\* alert URLs by position of first appearance, in that order.
C10_FirstTenDistinct ==
  ~found.err =>
    LET s == found.urls
    IN /\ \A i \in 1..Len(s) : \A j \in 1..Len(s) : s[i] = s[j] => i = j
       /\ Len(s) <= 10
       /\ Len(s) = IF Cardinality(ListedUrls) < 10 THEN Cardinality(ListedUrls) ELSE 10
       /\ Range(s) \subseteq ListedUrls
       /\ \A i \in 1..Len(s) : \A j \in 1..Len(s) : i < j => FirstAt(s[i]) < FirstAt(s[j])
       /\ \A u \in ListedUrls \ Range(s) : \A w \in Range(s) : FirstAt(w) < FirstAt(u)

\* C10 witness: a listing with more than 10 distinct alert URLs, one of them
\* linked twice in different forms, gave 10 URLs.
C10_Witness ==
  /\ ~found.err
  /\ Cardinality(ListedUrls) > 10
  /\ Len(found.urls) = 10
  /\ \E i \in AlertLinks : \E j \in AlertLinks :
       i < j /\ doc[i] # doc[j] /\ resolveURL(doc[i]) = resolveURL(doc[j])

----------------------------------------------------------------------------
\* Log entries of a pass at which the pipeline hit an error it contained
Contained(p) ==
  {k \in LogIds(p) : passes[p].log[k].outcome \in {"fetchFailed", "storeFailed"}}

\* C11: the POST /admin/sync-edcc handler answers only once the pass it
\* started is over, the answer is then always the success acknowledgment
\* { ok: true }, whatever failed inside the pass, and the promise of no
\* pass, whichever trigger started it, is ever rejected.
C11_SyncAlwaysAcknowledged ==
  \A p \in PassIds :
    /\ passes[p].response # "none" =>
          passes[p].trigger = "post" /\ passes[p].pc = "done"
    /\ passes[p].trigger = "post" /\ passes[p].pc = "done" =>
          passes[p].response = "ok"
    /\ ~passes[p].rejected

\* A POST-started pass that met a failed fetch and a failed store statement
\* has been acknowledged, and the startup pass ended on a failed discovery
C11_Witness ==
  /\ \E p \in PassIds :
       /\ passes[p].trigger = "post"
       /\ passes[p].response = "ok"
       /\ \E k \in Contained(p) : passes[p].log[k].outcome = "fetchFailed"
       /\ \E k \in Contained(p) : passes[p].log[k].outcome = "storeFailed"
  /\ \E p \in PassIds :
       /\ passes[p].trigger = "startup"
       /\ passes[p].discovery = "failed"
       /\ passes[p].pc = "done"

----------------------------------------------------------------------------
\* The four count columns, each with the page part its marker leads to
CountFields == {"num_confirmed", "num_suspected", "num_exposed", "num_euthanized"}
TokOf(pg, f) ==
  CASE f = "num_confirmed" -> pg.confirmedTok
    [] f = "num_suspected" -> pg.suspectedTok
    [] f = "num_exposed" -> pg.exposedTok
    [] f = "num_euthanized" -> pg.euthanizedTok

\* The candidates the passes have extracted so far, and those the rows hold
Extractions ==
  UNION {{passes[p].log[k].rec[1] :
            k \in {j \in LogIds(p) : passes[p].log[j].rec # NULL}} : p \in PassIds}
Stored == {RecOf(r) : r \in store}

\* The page a candidate was extracted from (raw_text is the page's body)
PageOf(rec) == CHOOSE pg \in AllPages : Some(pg.body) = rec.raw_text

\* The page of rec shows the literal "unknown", in any case, after the
\* marker of count f
ShowsUnknown(rec, f) ==
  LET tok == TokOf(PageOf(rec), f)
  IN /\ tok # NULL
     /\ PrefixLen(tok[1], WordChars) = Len(Unknown)
     /\ toLowerCase(SubSeq(tok[1], 1, Len(Unknown))) = Unknown

\* C12: in every candidate extracted and in every stored row, each of the
\* four counts (confirmed, suspected, exposed, euthanized) is null or an
\* integer >= 0, and it is null, not 0, where the page shows "unknown" in
\* any letter case.
C12_CountsNullOrNatural ==
  \A rec \in Extractions \cup Stored : \A f \in CountFields :
    /\ rec[f] = NULL \/ rec[f][1] \in Nat
    /\ ShowsUnknown(rec, f) => rec[f] = NULL

\* The store holds a row with a count of 0, a row with a positive count, a
\* row whose page shows "Unknown" and a row whose page shows a count with a
\* minus sign
C12_Witness ==
  /\ \E rec \in Stored : rec.num_confirmed = Some(0)
  /\ \E rec \in Stored : \E f \in CountFields : rec[f] # NULL /\ rec[f][1] > 0
  /\ \E rec \in Stored : \E f \in CountFields : ShowsUnknown(rec, f)
  /\ \E rec \in Stored : \E f \in CountFields :
       TokOf(PageOf(rec), f) # NULL /\ TokOf(PageOf(rec), f)[1][1] = "-"

----------------------------------------------------------------------------
(* getCoordsForCounty on its own.  A county text is held by the pieces it  *)
(* is written from: leading whitespace, a clinical word, the whitespace    *)
(* after it, the words of the name, the whitespace between two words and   *)
(* trailing whitespace.  JoinWords and CountyRaw write the text out.       *)

Leads == {<<>>, <<" ">>, <<"\t", " ">>}
Clinicals == {<<"N", "e", "u", "r", "o", "l", "o", "g", "i", "c">>,
              <<"n", "e", "u", "r", "o", "l", "o", "g", "i", "c">>,
              <<"R", "E", "S", "P", "I", "R", "A", "T", "O", "R", "Y">>,
              <<"R", "e", "s", "p", "i", "r", "a", "t", "o", "r", "y">>}
Seps == {<<>>, <<" ">>, <<" ", "\t">>}
Gaps == {<<" ">>, <<" ", " ">>, <<"\t">>}
Trails == {<<>>, <<" ">>}
\* Names whose first word is no clinical word
PlainNames == {<<<<"P", "a", "y", "n", "e">>, <<"C", "o", "u", "n", "t", "y">>>>,
          <<<<"S", "t", ".">>, <<"M", "a", "r", "y", "'", "s">>, <<"C", "o", "u", "n", "t", "y">>>>,
          <<<<"F", "o", "r", "t">>, <<"B", "e", "n", "d">>, <<"C", "o", "u", "n", "t", "y">>>>,
          <<<<"N", "o", "w", "h", "e", "r", "e">>, <<"C", "o", "u", "n", "t", "y">>>>,
          <<<<"p", "a", "y", "n", "e">>, <<"c", "o", "u", "n", "t", "y">>>>}
\* With a clinical word in front, the name may begin with a second one
Names == PlainNames \cup
         {<<Respiratory, <<"P", "a", "y", "n", "e">>, <<"C", "o", "u", "n", "t", "y">>>>}
States == {NULL, Some(<<>>), Some(<<"O", "K">>), Some(<<"T", "X">>),
           Some(<<"M", "D">>), Some(<<"o", "k">>)}

RECURSIVE JoinWords(_, _)
JoinWords(ws, gap) ==
  IF Len(ws) = 1 THEN ws[1] ELSE ws[1] \o gap \o JoinWords(Tail(ws), gap)

CountyPieces ==
  [lead : Leads, clinical : {<<>>}, sep : {<<>>}, name : PlainNames, gap : Gaps,
   trail : Trails]
  \cup
  [lead : Leads, clinical : Clinicals, sep : Seps, name : Names, gap : Gaps, trail : Trails]

\* The county text the pieces spell; NULL (no match on the page) and the
\* empty text stand for themselves
CountyRaw(c) ==
  IF c = NULL \/ c = Some(<<>>) THEN c
  ELSE Some(c[1].lead \o c[1].clinical \o c[1].sep
            \o JoinWords(c[1].name, c[1].gap) \o c[1].trail)

CoordInputs ==
  [county : {NULL, Some(<<>>)} \cup {Some(c) : c \in CountyPieces}, state : States]

InitCoords ==
  /\ store = {}
  /\ passes = <<>>
  /\ ver = [q \in Queries |-> 1]
  /\ latest = [a \in AlertIds |-> NULL]
  /\ calls = <<>>
  /\ doc = <<>>
  /\ found = getLatestAlertUrls(<<>>)
  /\ input \in CoordInputs
  /\ output = NULL

\* const { lat, lng } = getCoordsForCounty(county, state)
LookUpCoords ==
  /\ output = NULL
  /\ output' = Some(getCoordsForCounty(CountyRaw(input.county), input.state))
  /\ UNCHANGED <<store, passes, ver, latest, calls, doc, found, input>>

NextCoords == LookUpCoords

SpecCoords == InitCoords /\ [][NextCoords]_vars

\* The key the county text and the state stand for: the words of the name
\* one space apart, behind them ", " and the state; a clinical word counts
\* as part of the name when no whitespace parts it from the first word
NormalKey(in) ==
  LET c == in.county[1]
      name == JoinWords(c.name, <<" ">>)
  IN (IF c.sep = <<>> THEN c.clinical \o name ELSE name)
       \o <<",", " ">> \o in.state[1]

\* C13: getCoordsForCounty gives the table's coordinates when the key made
\* of the normalised county text (trimmed, one leading Neurologic or
\* Respiratory in any letter case and the whitespace after it taken off,
\* whitespace runs made one space), ", " and the state is in the table; it
\* gives lat = null and lng = null when the county or the state is missing
\* or the key is not in the table; lat is null exactly when lng is.
C13_CoordsFromNormalKey ==
  output # NULL =>
    /\ IF Falsy(input.county) \/ Falsy(input.state)
       THEN output[1] = [lat |-> NULL, lng |-> NULL]
       ELSE LET hits == {e \in COUNTY_COORDS : e.key = NormalKey(input)}
            IN IF hits = {} THEN output[1] = [lat |-> NULL, lng |-> NULL]
               ELSE \E e \in hits :
                      output[1] = [lat |-> Some(e.lat), lng |-> Some(e.lng)]
    /\ output[1].lat = NULL <=> output[1].lng = NULL

\* "\t neurologic \tPayne  County " with "OK" gave the pin of Payne County
C13_Witness ==
  /\ output = Some([lat |-> Some(361156), lng |-> Some(0 - 970584)])
  /\ input.county # NULL /\ input.county # Some(<<>>)
  /\ input.county[1].lead = <<"\t", " ">>
  /\ input.county[1].clinical = <<"n", "e", "u", "r", "o", "l", "o", "g", "i", "c">>
  /\ input.county[1].sep = <<" ", "\t">>
  /\ input.county[1].gap = <<" ", " ">>
  /\ input.county[1].trail = <<" ">>

----------------------------------------------------------------------------
\* C14: in every candidate extracted and in every stored row, category is
\* non-null only if disease is non-null and contains the separator "-";
\* no update sets or keeps a category apart from its disease.
C14_CategoryNeedsDisease ==
  \A rec \in Extractions \cup Stored :
    rec.category # NULL => rec.disease # NULL /\ "-" \in Range(rec.disease[1])

\* A row that had disease and category was updated from a page without a
\* disease link and now has neither, while another row holds a category
C14_Witness ==
  /\ \E r \in store : r.disease = NULL /\ r.category = NULL
                        /\ r.raw_text = Some(PageA2.body)
  /\ \E p \in PassIds : Upserted(p, Extracted[PageA1])
  /\ \E r \in store : r.category # NULL

----------------------------------------------------------------------------
(* The count rules on their own: parseAlertHtml on a page that has one     *)
(* count marker, followed by any short text or one of the listed words.    *)

TokenChars == {"0", "1", "9", "x", "U", "_", "-", " "}
ListedTokens == {<<"u", "n", "k", "n", "o", "w", "n">>,
                 <<"U", "n", "k", "n", "o", "w", "n">>,
                 <<"U", "N", "K", "N", "O", "W", "N">>,
                 <<"u", "n", "k", "n", "o", "w", "n", "7">>,
                 <<"1", "2", "x">>,
                 <<"2", "n", "d">>}

\* What may follow a marker and its whitespace (\s* has taken the blanks)
Tokens ==
  ListedTokens \cup
  {t \in UNION {[1..n -> TokenChars] : n \in 1..MaxTokenLen} : t[1] \notin WhiteSpace}

\* A page whose body has the marker of count f followed by tok, or no count
\* marker when tok is NULL
PageWithCount(f, tok) ==
  [ body |-> "T", links |-> <<>>, alertTok |-> NULL, outbreakTok |-> NULL,
    confirmedTok  |-> IF f = "num_confirmed" THEN tok ELSE NULL,
    suspectedTok  |-> IF f = "num_suspected" THEN tok ELSE NULL,
    exposedTok    |-> IF f = "num_exposed" THEN tok ELSE NULL,
    euthanizedTok |-> IF f = "num_euthanized" THEN tok ELSE NULL ]

InitCount ==
  /\ store = {}
  /\ passes = <<>>
  /\ ver = [q \in Queries |-> 1]
  /\ latest = [a \in AlertIds |-> NULL]
  /\ calls = <<>>
  /\ doc = <<>>
  /\ found = getLatestAlertUrls(<<>>)
  /\ input \in [field : CountFields, tok : {NULL} \cup {Some(t) : t \in Tokens}]
  /\ output = NULL

\* The count parseAlertHtml returns in column input.field
ExtractCount ==
  /\ output = NULL
  /\ output' = Some(parseAlertHtml(PageWithCount(input.field, input.tok))[input.field])
  /\ UNCHANGED <<store, passes, ver, latest, calls, doc, found, input>>

NextCount == ExtractCount

SpecCount == InitCount /\ [][NextCount]_vars

\* The word characters the text after the marker begins with
Captured(tok) == SubSeq(tok, 1, PrefixLen(tok, WordChars))

\* C15: the count is the integer value of the token captured after the
\* marker only when that token is numeric (digits only); it is null when
\* the marker is absent and when the token is "unknown" in any letter case
\* or any other non-numeric token, a token that mixes digits with other
\* word characters included.
C15_OnlyNumericTokensCount ==
  output # NULL =>
    IF input.tok # NULL /\ Captured(input.tok[1]) # <<>>
       /\ Range(Captured(input.tok[1])) \subseteq Digits
    THEN output[1] = Some(DecimalValue(Captured(input.tok[1])))
    ELSE output[1] = NULL

----------------------------------------------------------------------------
(* The source rule on its own.  A body text is held by its pieces: what    *)
(* comes before the source marker, the marker, the blanks after it, the    *)
(* words of the source and what follows them.                              *)

Befores == {<<>>, <<"A", "l", "e", "r", "t", " ", "I", "D", ":", " ", "7", " ">>}
SourceMarkers == {<<>>, <<"S", "o", "u", "r", "c", "e", ":">>,
                  <<"s", "o", "u", "r", "c", "e", ":", " ">>}
Blanks == {<<>>, <<" ">>}
SourceWords == {<<"S", "t", "a", "t", "e">>, <<"V", "e", "t">>, <<"U", "S", "D", "A">>,
                <<"V", "e", "t", "e", "r", "i", "n", "a", "r", "i", "a", "n">>,
                <<"N", "M">>, <<"O", "w", "n", "e", "r">>}
Afters == {<<>>, <<" ", "N", "u", "m", "b", "e", "r", " ", "C", "o", "n", "f", "i", "r", "m", "e", "d", ":", " ", "2">>,
           <<" ", "n", "u", "m", "b", "e", "r", " ", "s", "u", "s", "p", "e", "c", "t", "e", "d", ":", " ", "1">>}

SourceTexts == UNION {[1..n -> SourceWords] : n \in 1..MaxSourceWords}

BodyPieces ==
  [before : Befores, marker : SourceMarkers, blank : Blanks, words : SourceTexts,
   after : Afters]

\* The body text the pieces spell
BodyText(b) ==
  b.before \o b.marker \o b.blank \o JoinWords(b.words, <<" ">>) \o b.after

InitSource ==
  /\ store = {}
  /\ passes = <<>>
  /\ ver = [q \in Queries |-> 1]
  /\ latest = [a \in AlertIds |-> NULL]
  /\ calls = <<>>
  /\ doc = <<>>
  /\ found = getLatestAlertUrls(<<>>)
  /\ input \in BodyPieces
  /\ output = NULL

\* const source = sourceMatch ? sourceMatch[1].trim() : null
ExtractSource ==
  /\ output = NULL
  /\ output' = Some(SourceOf(BodyText(input)))
  /\ UNCHANGED <<store, passes, ver, latest, calls, doc, found, input>>

NextSource == ExtractSource

SpecSource == InitSource /\ [][NextSource]_vars

\* C16: for a body text that has "Source:" and later a "Number" marker, the
\* source is the trimmed text between the two, whatever letters it is
\* written with; the source is null only when a marker is absent.
C16_SourceBetweenMarkers ==
  output # NULL =>
    IF input.marker # <<>> /\ input.after # <<>>
    THEN output[1] = Some(JoinWords(input.words, <<" ">>))
    ELSE output[1] = NULL

----------------------------------------------------------------------------
\* C17: an upsert of a candidate with alert_id X leaves every row with
\* another alert_id as it was, every row keeps its alert_id (an update
\* never rewrites the key), and a row that is new or changed has alert_id X.
C17_UpsertTouchesOwnRowOnly ==
  \A k \in 1..Len(calls) :
    LET X == calls[k].rec.alert_id
        before == calls[k].before
    IN /\ \A r \in before : r.alert_id # X => r \in After(k)
       /\ \A r \in before : \E r2 \in After(k) : r2.id = r.id /\ r2.alert_id = r.alert_id
       /\ \A r \in After(k) : r \notin before => r.alert_id = X

\* A call has updated the row of its alert_id, changing it, while the table
\* held a row of another alert_id
C17_Witness ==
  \E k \in 1..Len(calls) :
    LET X == calls[k].rec.alert_id
        before == calls[k].before
    IN /\ \E r \in before : r.alert_id = X /\ r \notin After(k)
       /\ \E r \in before : r.alert_id # X
       /\ ~calls[k].err

----------------------------------------------------------------------------
(* One sync pass on its own, started by any of the three triggers, on the  *)
(* listings above or on a long listing with more alert links than one pass *)
(* takes.  The site serves the pages of Queries only, so the fetch of any  *)
(* other alert fails.  Every fetch is answered or fails in the end and the *)
(* event loop runs a continuation that is ready: weak fairness on the      *)
(* steps of the pass.                                                      *)

LongListing ==
  [k \in 1..(BatchCap + 2) |->
     Href("root", EDCC_BASE, IF k = 1 THEN 2 ELSE IF k = 2 THEN 1 ELSE k)]

PassListings == Listings \cup {LongListing}

InitPass ==
  /\ store = {}
  /\ passes \in {<<NewPass(t)>> : t \in {"startup", "cron", "post"}}
  /\ ver = [q \in Queries |-> 1]
  /\ latest = [a \in AlertIds |-> NULL]
  /\ calls = <<>>
  /\ doc = <<>>
  /\ found = getLatestAlertUrls(<<>>)
  /\ input = NULL
  /\ output = NULL

PassStep ==
  \/ \E l \in PassListings : DiscoverOk(1, l)
  \/ DiscoverFail(1)
  \/ \E l \in PassListings : DiscoverThrows(1, l)
  \/ FetchRespond(1)
  \/ FetchFail(1)
  \/ AlertArrives(1)
  \/ StoreFails(1)

NextPass ==
  \/ \E q \in Queries : PageUpdate(q)
  \/ PassStep

SpecPass == InitPass /\ [][NextPass]_vars /\ WF_vars(PassStep)

\* fetchAlert calls a pass has made so far
Fetches(ps) == IF ps.pc = "fetchAlert" THEN ps.i ELSE Len(ps.log)

\* Log entries of pass p at which upsertOutbreak was called
UpsertCalls(p) ==
  {k \in LogIds(p) : passes[p].log[k].outcome \in {"upserted", "storeFailed"}}

\* The URLs of a pass are distinct, the pass has handled them in their
\* order, one entry each, is at the next one while it runs and has handled
\* all when it is over; fetches and upsert calls stay within ten
OneByOneWithinCap ==
  \A p \in PassIds :
    LET ps == passes[p]
    IN /\ \A j \in 1..Len(ps.urls) : \A k \in 1..Len(ps.urls) :
            ps.urls[j] = ps.urls[k] => j = k
       /\ Len(ps.log) <= Len(ps.urls)
       /\ \A k \in LogIds(p) : ps.log[k].url = ps.urls[k]
       /\ ps.pc = "fetchAlert" => ps.i = Len(ps.log) + 1 /\ ps.i <= Len(ps.urls)
       /\ ps.pc = "done" /\ ps.discovery = "ok" => Len(ps.log) = Len(ps.urls)
       /\ Fetches(ps) <= 10
       /\ Cardinality(UpsertCalls(p)) <= 10

\* C18: a pass that has started finishes, given that each of its fetches
\* is answered or fails in the end; it handles the discovered URLs one at
\* a time in discovery order, fetches each once and upserts it at most
\* once, and so makes at most 10 alert fetches and 10 upserts.
C18_PassEndsWithinCap ==
  /\ []OneByOneWithinCap
  /\ Running(passes[1]) ~> ~Running(passes[1])

\* A pass on the long listing is over after ten fetches, some failed, some
\* leading to an upsert
C18_Witness ==
  /\ passes[1].pc = "done"
  /\ Len(passes[1].urls) = BatchCap
  /\ Len(passes[1].log) = BatchCap
  /\ passes[1].urls[1].q = 2 /\ passes[1].urls[2].q = 1
  /\ UpsertCalls(1) # {}
  /\ \E k \in LogIds(1) : passes[1].log[k].outcome = "fetchFailed"


====
